---- MODULE Spec2Model ----
(***************************************************************************)
(* Model of private_tools/reorder_buildreport.py: the BuildReport parser,  *)
(* the module-level and library-level reorder, the serializer (save), the  *)
(* verifier (verify_report_integrity) and the pipeline of main(); and of   *)
(* command_board/main.py: execute_action and the closing of the window.    *)
(*                                                                         *)
(* Text is a sequence of tokens.  Each token stands for a fixed piece of   *)
(* text, so that concatenation of text is concatenation of sequences:      *)
(*   nl       one newline character                                        *)
(*   sep      MODULE_SEPARATOR, a newline and MODULE_HEADER (the text the  *)
(*            module-start pattern matches)                                *)
(*   name     "Module Name: <token>", v is the token                       *)
(*   libopen  lib_section_marker (rule, "Library", underline)              *)
(*   libend   lib_section_end (the closing rule)                           *)
(*   inf      a whole line ending in ".inf", v is the path                 *)
(*   info     a brace block "{...}" at the start of a line, v its text     *)
(*   trunc    a brace block cut before its closing brace, v its text       *)
(*   txt      any other text without a newline, v identifies it            *)
(* The input files are built line by line: an inf or info token is always  *)
(* the first token of its line.                                            *)
(***************************************************************************)
EXTENDS Integers, Sequences, FiniteSets, TLC

VARIABLES pc, fs, report1, report2, new_order, driver_only_ok, driver_and_lib_ok,
          listed, produced, app

vars == <<pc, fs, report1, report2, new_order, driver_only_ok, driver_and_lib_ok, listed,
          produced, app>>

----------------------------------------------------------------------------
(* Bounds of the input families *)

MaxTgtModules == 3
MaxRefModules == 2
MaxTgtLibs == 3
MaxRefLibs == 2

----------------------------------------------------------------------------
(* Tokens *)

Tok(k, v) == [k |-> k, v |-> v]

NL == Tok("nl", 0)
SEP == Tok("sep", 0)
LIBOPEN == Tok("libopen", 0)
LIBEND == Tok("libend", 0)
Txt(i) == Tok("txt", i)

\* A declared module name is a base word followed by zero or more "#<n>"
\* pieces: "A" is [b |-> "A", s |-> <<>>], "A#2" is [b |-> "A", s |-> <<2>>].
Name(b, s) == [b |-> b, s |-> s]
NameTok(n) == Tok("name", n)

\* None, as returned by _extract_module_name (a match is never empty).
NoName == Name("", <<>>)

\* f"{module_name}#{count}"
Suffixed(n, count) == Name(n.b, Append(n.s, count))

\* A library path: id is the path with letters lower-cased and separators
\* written "/", uc says that it has upper-case letters, bs that it has
\* backslashes.
Path(id, uc, bs) == [id |-> id, uc |-> uc, bs |-> bs]
InfTok(p) == Tok("inf", p)
InfoTok(a) == Tok("info", a)
TruncTok(a) == Tok("trunc", a)

----------------------------------------------------------------------------
(* Sequence helpers *)

Min(S) == CHOOSE x \in S : \A y \in S : x <= y

Positions(text, kind) == {i \in 1..Len(text) : text[i].k = kind}

Contains(text, kind) == \E i \in 1..Len(text) : text[i].k = kind

\* The position of the first token of a kind.
First(text, kind) == Min(Positions(text, kind))

\* The positions of the tokens of a kind, in increasing order.
PositionsInOrder(text, kind) ==
  LET OfKind(i) == text[i].k = kind IN SelectSeq([i \in 1..Len(text) |-> i], OfKind)

\* rstrip_nl that removes one trailing newline only.
rstrip_one_nl(text) ==
  IF text # <<>> /\ text[Len(text)].k = "nl"
  THEN SubSeq(text, 1, Len(text) - 1)
  ELSE text

\* str.rstrip('\n')
RECURSIVE rstrip_nl(_)
rstrip_nl(text) ==
  IF text # <<>> /\ text[Len(text)].k = "nl"
  THEN rstrip_nl(SubSeq(text, 1, Len(text) - 1))
  ELSE text

----------------------------------------------------------------------------
(* BuildReport._parse *)

\* module_starts: the positions the module-start pattern matches at.
module_starts(content) == PositionsInOrder(content, "sep")

\* re.search(r'Module Name:\s+(\S+)', module_block): the first match.
extract_module_name(block) ==
  IF Contains(block, "name") THEN block[First(block, "name")].v ELSE NoName

\* modules_section[start_pos:end_pos] of the i-th module start.
BlockAt(content, starts, i) ==
  SubSeq(content, starts[i],
         IF i + 1 <= Len(starts) THEN starts[i + 1] - 1 ELSE Len(content))

\* parse_step with the suffix taken from the counter before it is incremented
\* (the second block of a name gets "#1").
parse_step_stale_count(st, block) ==
  LET module_name == extract_module_name(block) IN
  IF module_name # NoName
  THEN LET seen == module_name \in DOMAIN st.module_name_count
           count == IF seen THEN st.module_name_count[module_name] + 1 ELSE 1
           unique_key == IF seen THEN Suffixed(module_name, count - 1) ELSE module_name
       IN [module_name_count |-> (module_name :> count) @@ st.module_name_count,
           modules |-> (unique_key :> block) @@ st.modules,
           module_order |-> Append(st.module_order, unique_key)]
  ELSE st

\* The loop over module_starts; st holds module_name_count, modules and
\* module_order.
parse_step(st, block) ==
  LET module_name == extract_module_name(block) IN
  IF module_name # NoName
  THEN LET seen == module_name \in DOMAIN st.module_name_count
           count == IF seen THEN st.module_name_count[module_name] + 1 ELSE 1
           unique_key == IF seen THEN Suffixed(module_name, count) ELSE module_name
       IN [module_name_count |-> (module_name :> count) @@ st.module_name_count,
           modules |-> (unique_key :> block) @@ st.modules,
           module_order |-> Append(st.module_order, unique_key)]
  ELSE st

RECURSIVE parse_loop(_, _, _, _)
parse_loop(content, starts, i, st) ==
  IF i > Len(starts) THEN st
  ELSE parse_loop(content, starts, i + 1, parse_step(st, BlockAt(content, starts, i)))

\* has_modules that also wants a declared name in some block.
has_named_modules(content) == Contains(content, "sep") /\ Contains(content, "name")

\* The pattern is found at least once (otherwise _parse raises ValueError).
has_modules(content) == Contains(content, "sep")

parse(content) ==
  LET starts == module_starts(content)
      st == parse_loop(content, starts, 1,
                       [module_name_count |-> <<>>, modules |-> <<>>, module_order |-> <<>>])
  IN [header |-> rstrip_nl(SubSeq(content, 1, starts[1] - 1)),
      modules |-> st.modules,
      module_order |-> st.module_order]

NoReport == [header |-> <<>>, modules |-> <<>>, module_order |-> <<>>]

----------------------------------------------------------------------------
(* BuildReport.reorder_modules *)

\* "for module_name in reference_order: if module_name in self.modules":
\* acc holds new_order and used_modules.
RECURSIVE add_in_reference_order(_, _, _, _)
add_in_reference_order(modules, reference_order, i, acc) ==
  IF i > Len(reference_order) THEN acc
  ELSE LET module_name == reference_order[i] IN
       add_in_reference_order(modules, reference_order, i + 1,
         IF module_name \in DOMAIN modules
         THEN [new_order |-> Append(acc.new_order, module_name),
               used_modules |-> acc.used_modules \cup {module_name}]
         ELSE acc)

\* "for module_name in self.module_order: if module_name not in used_modules"
RECURSIVE add_remaining(_, _, _, _)
add_remaining(module_order, used_modules, i, order) ==
  IF i > Len(module_order) THEN order
  ELSE add_remaining(module_order, used_modules, i + 1,
         IF module_order[i] \notin used_modules
         THEN Append(order, module_order[i])
         ELSE order)

\* reorder_modules without the test "module_name in self.modules".
RECURSIVE add_all_in_reference_order(_, _, _)
add_all_in_reference_order(reference_order, i, acc) ==
  IF i > Len(reference_order) THEN acc
  ELSE add_all_in_reference_order(reference_order, i + 1,
         [new_order |-> Append(acc.new_order, reference_order[i]),
          used_modules |-> acc.used_modules \cup {reference_order[i]}])

reorder_modules_unfiltered(report, reference_order) ==
  LET acc == add_all_in_reference_order(reference_order, 1,
                                        [new_order |-> <<>>, used_modules |-> {}])
  IN add_remaining(report.module_order, acc.used_modules, 1, acc.new_order)

\* reorder_modules with the remaining keys put before the matched ones.
reorder_modules_remaining_first(report, reference_order) ==
  LET acc == add_in_reference_order(report.modules, reference_order, 1,
                                    [new_order |-> <<>>, used_modules |-> {}])
  IN add_remaining(report.module_order, acc.used_modules, 1, <<>>) \o acc.new_order

\* reorder_modules without the test "module_name not in used_modules" of the
\* second loop: every key of module_order is appended again.
reorder_modules_without_used_test(report, reference_order) ==
  LET acc == add_in_reference_order(report.modules, reference_order, 1,
                                    [new_order |-> <<>>, used_modules |-> {}])
  IN add_remaining(report.module_order, {}, 1, acc.new_order)

\* reorder_modules with the second loop running over module_order from its
\* end to its start.
RECURSIVE add_remaining_backwards(_, _, _, _)
add_remaining_backwards(module_order, used_modules, i, order) ==
  IF i < 1 THEN order
  ELSE add_remaining_backwards(module_order, used_modules, i - 1,
         IF module_order[i] \notin used_modules
         THEN Append(order, module_order[i])
         ELSE order)

reorder_modules_remaining_backwards(report, reference_order) ==
  LET acc == add_in_reference_order(report.modules, reference_order, 1,
                                    [new_order |-> <<>>, used_modules |-> {}])
  IN add_remaining_backwards(report.module_order, acc.used_modules,
                             Len(report.module_order), acc.new_order)

\* The new order, which the method returns and stores as self.module_order.
reorder_modules(report, reference_order) ==
  LET acc == add_in_reference_order(report.modules, reference_order, 1,
                                    [new_order |-> <<>>, used_modules |-> {}])
  IN add_remaining(report.module_order, acc.used_modules, 1, acc.new_order)

----------------------------------------------------------------------------
(* The library sub-section of a module block *)

\* module_content.split(lib_section_marker, 1): the text before the first
\* marker and the text after it.
BeforeMarker(text) == SubSeq(text, 1, First(text, "libopen") - 1)
AfterMarker(text) == SubSeq(text, First(text, "libopen") + 1, Len(text))

\* remaining.split(lib_section_end, 1): one part when the closing rule does
\* not occur in it, two parts otherwise.
SplitsAtEnd(remaining) == Contains(remaining, "libend")
BeforeEnd(remaining) ==
  IF SplitsAtEnd(remaining)
  THEN SubSeq(remaining, 1, First(remaining, "libend") - 1)
  ELSE remaining
AfterEnd(remaining) ==
  SubSeq(remaining, First(remaining, "libend") + 1, Len(remaining))

\* normalized_path without the replacement and the lower-casing.
path_as_written(p) == p

\* lib_path.replace('\\', '/').lower()
normalized_path(p) == Path(p.id, FALSE, FALSE)

\* lib_pattern, r'^([^\n]+\.inf)\n(\{[^}]+\})', matches at position i: the
\* position of the last token of the match, 0 when there is no match.  After
\* an opening brace, [^}]+ runs over any text up to the next closing brace.
lib_pattern_at(section, i) ==
  IF /\ i + 2 <= Len(section)
     /\ section[i].k = "inf"
     /\ section[i + 1].k = "nl"
  THEN IF section[i + 2].k = "info" THEN i + 2
       ELSE IF section[i + 2].k = "trunc"
                 /\ \E j \in i + 3..Len(section) : section[j].k = "info"
            THEN Min({j \in i + 3..Len(section) : section[j].k = "info"})
            ELSE 0
  ELSE 0

\* lib_pattern.finditer(section): the matches from position i on, left to
\* right and not overlapping, each as the record the code appends.
RECURSIVE find_libs(_, _)
find_libs(section, i) ==
  IF i > Len(section) THEN <<>>
  ELSE LET end == lib_pattern_at(section, i) IN
       IF end # 0
       THEN <<[path |-> section[i].v,
               normalized_path |-> normalized_path(section[i].v),
               info |-> SubSeq(section, i + 2, end),
               full |-> SubSeq(section, i, end)]>>
            \o find_libs(section, end + 1)
       ELSE find_libs(section, i + 1)

\* BuildReport.get_library_count
get_library_count(report, module_name) ==
  IF module_name \notin DOMAIN report.modules THEN 0
  ELSE LET module_content == report.modules[module_name] IN
       IF ~Contains(module_content, "libopen") \/ ~Contains(module_content, "libend")
       THEN 0
       ELSE Len(find_libs(BeforeEnd(AfterMarker(module_content)), 1))

----------------------------------------------------------------------------
(* BuildReport._reorder_libraries_in_module *)

\* ref_libs_of without the test "module_name in reference_report.modules":
\* a module the reference lacks takes the records of the reference's first
\* module.
ref_libs_of_any_module(module_name, reference_report) ==
  LET name == IF module_name \in DOMAIN reference_report.modules \/ reference_report.module_order = <<>>
              THEN module_name
              ELSE reference_report.module_order[1]
  IN IF name \in DOMAIN reference_report.modules
     THEN LET ref_module == reference_report.modules[name] IN
          IF Contains(ref_module, "libopen")
          THEN find_libs(BeforeEnd(AfterMarker(ref_module)), 1)
          ELSE <<>>
     ELSE <<>>

\* The reference's library records of the module of the same key.
ref_libs_of(module_name, reference_report) ==
  IF module_name \in DOMAIN reference_report.modules
  THEN LET ref_module == reference_report.modules[module_name] IN
       IF Contains(ref_module, "libopen")
       THEN find_libs(BeforeEnd(AfterMarker(ref_module)), 1)
       ELSE <<>>
  ELSE <<>>

\* The inner loop: the first index from i on that is not used and has the
\* reference record's normalized path; 0 when there is none.
RECURSIVE first_unused_match(_, _, _, _)
first_unused_match(ref_lib, current_libs, used_indices, i) ==
  IF i > Len(current_libs) THEN 0
  ELSE IF i \notin used_indices
          /\ ref_lib.normalized_path = current_libs[i].normalized_path
       THEN i
       ELSE first_unused_match(ref_lib, current_libs, used_indices, i + 1)

\* The outer loop over ref_libs: acc holds reordered_libs and used_indices.
RECURSIVE match_in_reference_order(_, _, _, _)
match_in_reference_order(ref_libs, current_libs, r, acc) ==
  IF r > Len(ref_libs) THEN acc
  ELSE LET i == first_unused_match(ref_libs[r], current_libs, acc.used_indices, 1) IN
       match_in_reference_order(ref_libs, current_libs, r + 1,
         IF i # 0
         THEN [reordered_libs |-> Append(acc.reordered_libs, current_libs[i]),
               used_indices |-> acc.used_indices \cup {i}]
         ELSE acc)

\* add_remaining_libs that walks current_libs from its end.
RECURSIVE add_remaining_libs_backwards(_, _, _, _)
add_remaining_libs_backwards(current_libs, used_indices, i, reordered_libs) ==
  IF i > Len(current_libs) THEN reordered_libs
  ELSE LET j == Len(current_libs) + 1 - i IN
       add_remaining_libs_backwards(current_libs, used_indices, i + 1,
         IF j \notin used_indices
         THEN Append(reordered_libs, current_libs[j])
         ELSE reordered_libs)

\* "Add remaining libraries (not in reference) in their original order"
RECURSIVE add_remaining_libs(_, _, _, _)
add_remaining_libs(current_libs, used_indices, i, reordered_libs) ==
  IF i > Len(current_libs) THEN reordered_libs
  ELSE add_remaining_libs(current_libs, used_indices, i + 1,
         IF i \notin used_indices
         THEN Append(reordered_libs, current_libs[i])
         ELSE reordered_libs)

\* reorder_libs without "used_indices.add(i)": a matched record stays
\* available to later reference records and to the remaining-records loop.
RECURSIVE match_without_marking(_, _, _, _)
match_without_marking(ref_libs, current_libs, r, reordered_libs) ==
  IF r > Len(ref_libs) THEN reordered_libs
  ELSE LET i == first_unused_match(ref_libs[r], current_libs, {}, 1) IN
       match_without_marking(ref_libs, current_libs, r + 1,
         IF i # 0 THEN Append(reordered_libs, current_libs[i]) ELSE reordered_libs)

reorder_libs_without_marking(current_libs, ref_libs) ==
  add_remaining_libs(current_libs, {}, 1,
                     match_without_marking(ref_libs, current_libs, 1, <<>>))

\* reorder_libs without the loop that adds the remaining records.
reorder_libs_matched_only(current_libs, ref_libs) ==
  match_in_reference_order(ref_libs, current_libs, 1,
                           [reordered_libs |-> <<>>, used_indices |-> {}]).reordered_libs

\* reordered_libs of lines 257-272.
reorder_libs(current_libs, ref_libs) ==
  LET acc == match_in_reference_order(ref_libs, current_libs, 1,
                                      [reordered_libs |-> <<>>, used_indices |-> {}])
  IN add_remaining_libs(current_libs, acc.used_indices, 1, acc.reordered_libs)

\* '\n'.join(lib['full'] for lib in libs)
RECURSIVE join_full(_)
join_full(libs) ==
  IF libs = <<>> THEN <<>>
  ELSE IF Len(libs) = 1 THEN libs[1].full
  ELSE libs[1].full \o <<NL>> \o join_full(Tail(libs))

\* reorder_libraries_in_module that rebuilds the block without
\* lib_section_end.
reorder_libraries_closing_rule_lost(module_content, module_name, reference_report) ==
  IF ~Contains(module_content, "libopen") \/ ~Contains(module_content, "libend")
  THEN module_content
  ELSE
    LET remaining == AfterMarker(module_content)
        current_libs == find_libs(BeforeEnd(remaining), 1)
        ref_libs == ref_libs_of(module_name, reference_report)
    IN
    IF ~SplitsAtEnd(remaining) \/ current_libs = <<>> \/ ref_libs = <<>>
    THEN module_content
    ELSE BeforeMarker(module_content) \o <<LIBOPEN, NL>>
           \o join_full(reorder_libs(current_libs, ref_libs)) \o <<NL>> \o AfterEnd(remaining)

reorder_libraries_in_module(module_content, module_name, reference_report) ==
  IF ~Contains(module_content, "libopen") \/ ~Contains(module_content, "libend")
  THEN module_content
  ELSE
    LET before_lib_section == BeforeMarker(module_content)
        remaining == AfterMarker(module_content)
    IN
    IF ~SplitsAtEnd(remaining) THEN module_content
    ELSE
      LET lib_section == BeforeEnd(remaining)
          after_lib_section == AfterEnd(remaining)
          current_libs == find_libs(lib_section, 1)
          ref_libs == ref_libs_of(module_name, reference_report)
      IN
      IF current_libs = <<>> THEN module_content
      ELSE IF ref_libs = <<>> THEN module_content
      ELSE
        LET reordered_libs == reorder_libs(current_libs, ref_libs)
            new_lib_section == <<NL>> \o join_full(reordered_libs) \o <<NL>>
        IN before_lib_section \o <<LIBOPEN>> \o new_lib_section
             \o <<LIBEND>> \o after_lib_section

----------------------------------------------------------------------------
(* BuildReport.save: the text written to the output file *)

\* The text of one module as save writes it.
module_content_written(report, module_name, reorder_libraries, reference_report) ==
  IF reorder_libraries
  THEN reorder_libraries_in_module(report.modules[module_name], module_name,
                                   reference_report)
  ELSE report.modules[module_name]

RECURSIVE write_modules(_, _, _, _)
write_modules(report, i, reorder_libraries, reference_report) ==
  IF i > Len(report.module_order) THEN <<>>
  ELSE <<NL>>
       \o module_content_written(report, report.module_order[i], reorder_libraries,
                                 reference_report)
       \o write_modules(report, i + 1, reorder_libraries, reference_report)

save(report, reorder_libraries, reference_report) ==
  report.header \o <<NL>> \o write_modules(report, 1, reorder_libraries, reference_report)

----------------------------------------------------------------------------
(* verify_report_integrity *)

\* The list of mismatches, in the order of original_report.module_order.
RECURSIVE mismatches_from(_, _, _)
mismatches_from(original_report, output_report, i) ==
  IF i > Len(original_report.module_order) THEN <<>>
  ELSE LET module_name == original_report.module_order[i]
           original_lib_count == get_library_count(original_report, module_name)
           output_lib_count == get_library_count(output_report, module_name)
       IN (IF original_lib_count # output_lib_count
           THEN <<[module |-> module_name,
                   original |-> original_lib_count,
                   output |-> output_lib_count]>>
           ELSE <<>>)
          \o mismatches_from(original_report, output_report, i + 1)

\* verify_report_integrity without the loop over the library counts.
verify_module_count_only(original_report, output_content) ==
  Len(original_report.module_order) = Len(parse(output_content).module_order)

\* The value returned for an output file that parses.
verify_report_integrity(original_report, output_content) ==
  LET output_report == parse(output_content) IN
  IF Len(original_report.module_order) # Len(output_report.module_order)
  THEN FALSE
  ELSE mismatches_from(original_report, output_report, 1) = <<>>

\* mismatches[:10]
FirstShown == 10

\* listed_mismatches without the slice [:10].
listed_all_mismatches(original_report, output_content) ==
  LET output_report == parse(output_content) IN
  IF Len(original_report.module_order) # Len(output_report.module_order)
  THEN <<>>
  ELSE mismatches_from(original_report, output_report, 1)

\* The mismatches the verifier prints ("First 10 mismatches"): none when it
\* returns at the module count.
listed_mismatches(original_report, output_content) ==
  LET output_report == parse(output_content) IN
  IF Len(original_report.module_order) # Len(output_report.module_order)
  THEN <<>>
  ELSE LET mismatches == mismatches_from(original_report, output_report, 1)
       IN SubSeq(mismatches, 1, IF Len(mismatches) < FirstShown
                                THEN Len(mismatches) ELSE FirstShown)

\* The texts that successive calls of _reorder_libraries_in_module on the
\* block of one module have returned; main keeps none.
NothingProduced == [module |-> NoName, texts |-> <<>>]

\* What has been printed for the two output files before any verification.
NothingListed == [out1 |-> <<>>, out2 |-> <<>>]

----------------------------------------------------------------------------
(* command_board/main.py: CommandBoardApp.execute_action *)

\* A string is a sequence of pieces, each a fixed non-empty piece of text:
\*   word   text without blanks, quotes or braces
\*   sp     one blank
\*   quote  one double quote
\*   field  "{<name>}", a replacement field of str.format, v is the name
\*   auto   "{}", a replacement field without a name
Word(w) == Tok("word", w)
SP == Tok("sp", " ")
QUOTE == Tok("quote", "\"")
Field(n) == Tok("field", n)
AUTO == Tok("auto", "")

\* str.strip()
RECURSIVE strip(_)
strip(s) ==
  IF s = <<>> THEN s
  ELSE IF s[1] = SP THEN strip(Tail(s))
  ELSE IF s[Len(s)] = SP THEN strip(SubSeq(s, 1, Len(s) - 1))
  ELSE s

\* dict.get(key) or '' for a dict whose values are strings.
GetOrEmpty(d, key) == IF key \in DOMAIN d THEN d[key] ELSE <<>>

\* resolve_executable: the alias, when it is known and maps to a non-empty
\* path, replaces the action's executable; the result is never None.
resolve_executable(action, config) ==
  LET exe == GetOrEmpty(action, "executable")
      alias == IF "executableAlias" \in DOMAIN action THEN action.executableAlias ELSE ""
      real == IF alias \in DOMAIN config.aliases THEN config.aliases[alias] ELSE <<>>
  IN IF alias # "" /\ real # <<>> THEN real ELSE exe

\* What resolve_executable writes to the log.
resolve_executable_log(action, config) ==
  LET alias == IF "executableAlias" \in DOMAIN action THEN action.executableAlias ELSE ""
      real == IF alias \in DOMAIN config.aliases THEN config.aliases[alias] ELSE <<>>
  IN IF alias = "" THEN <<>>
     ELSE IF real # <<>> THEN <<[event |-> "ALIAS_RESOLVE", status |-> "INFO"]>>
     ELSE <<[event |-> "ALIAS_MISSING", status |-> "WARN"]>>

reserved ==
  {"name", "executable", "executableAlias", "argsTemplate", "enabled", "actions", "label"}

\* vars_ctx: the keys of the command and of the action that are not
\* reserved, the action's value winning.
vars_ctx_of(base_cmd, action) ==
  [k \in (DOMAIN base_cmd \cup DOMAIN action) \ reserved |->
     IF k \in DOMAIN action THEN action[k] ELSE base_cmd[k]]

\* set(re.findall(r'{([a-zA-Z0-9_]+)}', template))
placeholders_of(template) ==
  {template[i].v : i \in {j \in 1..Len(template) : template[j].k = "field"}}

\* template.format(**vars_ctx) raises for a field without a name.
format_raises(template) == \E i \in 1..Len(template) : template[i].k = "auto"

\* template.format(**vars_ctx) when every field is in vars_ctx.
RECURSIVE format(_, _)
format(template, vars_ctx) ==
  IF template = <<>> THEN <<>>
  ELSE (IF template[1].k = "field" THEN vars_ctx[template[1].v] ELSE <<template[1]>>)
       \o format(Tail(template), vars_ctx)

\* quoted_exe of line 231.
quoted_exe_of(exe) ==
  IF (\E i \in 1..Len(exe) : exe[i] = SP) /\ exe[1] # QUOTE
  THEN <<QUOTE>> \o exe \o <<QUOTE>>
  ELSE exe

\* self.logger.log(event, ..., status=status) when record_log is set;
\* ActionLogger.log never raises.
Logged(self, entries) ==
  IF self.record_log THEN [self EXCEPT !.log = @ \o entries] ELSE self

LogEntry(event, status) == <<[event |-> event, status |-> status]>>

\* messagebox.showerror(title, ...)
ShowError(self, title) == [self EXCEPT !.shown = Append(@, title)]

\* execute_action with "self.after(100, self.destroy)" moved out of the try
\* statement: the close is scheduled whatever happened before.
execute_action_always_closing(self, base_cmd, action, popen_raises) ==
  LET exe == resolve_executable(action, self.config_data)
      template == strip(GetOrEmpty(action, "argsTemplate"))
      vars_ctx == vars_ctx_of(base_cmd, action)
      missing == placeholders_of(template) \ DOMAIN vars_ctx
      clicked == Logged(self, LogEntry("BUTTON_CLICK", "INFO")
                              \o resolve_executable_log(action, self.config_data))
      closing(s) == IF s.close_on_action
                    THEN [Logged(s, LogEntry("APP_CLOSE", "INFO")) EXCEPT !.after_queue = @ + 1]
                    ELSE s
  IN
  IF exe = <<>>
  THEN closing(ShowError(Logged(clicked, LogEntry("EXECUTE", "ERROR")), "Error"))
  ELSE IF missing # {}
  THEN closing(ShowError(Logged(clicked, LogEntry("EXECUTE", "ERROR")), "Template Error"))
  ELSE IF format_raises(template) \/ popen_raises
  THEN closing(ShowError(Logged(clicked, LogEntry("EXECUTE", "ERROR")), "Execution Failed"))
  ELSE
    LET final_args == format(template, vars_ctx)
        full_cmd == strip(quoted_exe_of(exe) \o <<SP>> \o final_args)
        process == IF final_args # <<>>
                   THEN [shell |-> TRUE, args |-> full_cmd]
                   ELSE [shell |-> FALSE, args |-> exe]
    IN closing(Logged([clicked EXCEPT !.launched = Append(@, process)],
                      LogEntry("EXECUTE", "OK")))

\* CommandBoardApp.execute_action.  popen_raises: subprocess.Popen raises
\* instead of starting the process.
execute_action(self, base_cmd, action, popen_raises) ==
  LET exe == resolve_executable(action, self.config_data)
      template == strip(GetOrEmpty(action, "argsTemplate"))
      vars_ctx == vars_ctx_of(base_cmd, action)
      missing == placeholders_of(template) \ DOMAIN vars_ctx
      clicked == Logged(self, LogEntry("BUTTON_CLICK", "INFO")
                              \o resolve_executable_log(action, self.config_data))
  IN
  IF exe = <<>>
  THEN ShowError(Logged(clicked, LogEntry("EXECUTE", "ERROR")), "Error")
  ELSE IF missing # {}
  THEN ShowError(Logged(clicked, LogEntry("EXECUTE", "ERROR")), "Template Error")
  ELSE IF format_raises(template) \/ popen_raises
  THEN ShowError(Logged(clicked, LogEntry("EXECUTE", "ERROR")), "Execution Failed")
  ELSE
    LET final_args == format(template, vars_ctx)
        full_cmd == strip(quoted_exe_of(exe) \o <<SP>> \o final_args)
        process == IF final_args # <<>>
                   THEN [shell |-> TRUE, args |-> full_cmd]
                   ELSE [shell |-> FALSE, args |-> exe]
        started == Logged([clicked EXCEPT !.launched = Append(@, process)],
                          LogEntry("EXECUTE", "OK"))
    IN IF started.close_on_action
       THEN [Logged(started, LogEntry("APP_CLOSE", "INFO")) EXCEPT !.after_queue = @ + 1]
       ELSE started

\* No window: the state of the application in the runs of
\* reorder_buildreport.py.
NoApp == "none"

----------------------------------------------------------------------------
(* Input files *)

File(content) == [exists |-> TRUE, content |-> content]
Missing == [exists |-> FALSE, content |-> <<>>]

A == Name("A", <<>>)
B == Name("B", <<>>)
A2 == Name("A", <<2>>)
X == Name("X", <<>>)
Y == Name("Y", <<>>)
Z == Name("Z", <<>>)
W == Name("W", <<>>)

libA == Path("liba.inf", FALSE, FALSE)
libAalt == Path("liba.inf", TRUE, TRUE)
libB == Path("libb.inf", FALSE, FALSE)
libC == Path("libc.inf", FALSE, FALSE)

Rec(p, a) == [path |-> p, info |-> a]

SeqsUpTo(S, lo, hi) == UNION {[1..n -> S] : n \in lo..hi}

\* The lines of one library record.
RecordLines(r) == <<InfTok(r.path), NL, InfoTok(r.info), NL>>

\* The lines of the records; with junk, a line that is no library record
\* follows the first record (or opens the section when there is none).
RECURSIVE RecordsLines(_, _, _)
RecordsLines(recs, i, junk) ==
  IF i > Len(recs) THEN (IF junk /\ i = 1 THEN <<Txt(99), NL>> ELSE <<>>)
  ELSE RecordLines(recs[i])
       \o (IF junk /\ i = 1 THEN <<Txt(99), NL>> ELSE <<>>)
       \o RecordsLines(recs, i + 1, junk)

\* A library sub-section: opening delimiter, records, closing rule.
LibSection(recs, junk) == <<LIBOPEN, NL>> \o RecordsLines(recs, 1, junk) \o <<LIBEND, NL>>

\* The i-th module block of a file: delimiter, name line (if the block
\* declares a name), a body line of its own, and the library sub-section (if
\* it has one).
ModuleBlock(i, m) ==
  <<SEP, NL>>
  \o (IF m.name # NoName THEN <<NameTok(m.name), NL>> ELSE <<>>)
  \o <<Txt(i), NL>>
  \o (IF m.haslib THEN LibSection(m.recs, m.junk) ELSE <<>>)

Mod(name, haslib, recs, junk) ==
  [name |-> name, haslib |-> haslib, recs |-> recs, junk |-> junk]

RECURSIVE ModuleBlocks(_, _)
ModuleBlocks(ms, i) ==
  IF i > Len(ms) THEN <<>> ELSE ModuleBlock(i, ms[i]) \o ModuleBlocks(ms, i + 1)

\* A report file: a header line, a blank line, the module blocks.
ReportFile(ms) == File(<<Txt(0), NL, NL>> \o ModuleBlocks(ms, 1))

\* The files main() starts with; the output files do not exist yet.
InitialFiles(f1, f2) ==
  fs = [in1 |-> f1, in2 |-> f2, out1 |-> Missing, out2 |-> Missing]

\* Modules that differ in their declared names only (no library section);
\* a file of no modules has no module delimiter.
PlainMods(names) == [i \in 1..Len(names) |-> Mod(names[i], FALSE, <<>>, FALSE)]

KeyInputs ==
  \E r \in SeqsUpTo({A, B, A2}, 0, MaxRefModules),
     t \in SeqsUpTo({A, B, A2, NoName}, 0, MaxTgtModules) :
    InitialFiles(ReportFile(PlainMods(r)), ReportFile(PlainMods(t)))

\* Modules named A or A#2 with no or one library record.
OneLib == <<Rec(libA, "i1")>>
ShapeMods == {Mod(n, TRUE, recs, FALSE) : n \in {A, A2}, recs \in {<<>>, OneLib}}

ShapeInputs ==
  \E r \in SeqsUpTo({A, A2}, 1, MaxRefModules),
     t \in SeqsUpTo(ShapeMods, 1, MaxTgtModules) :
    InitialFiles(ReportFile([i \in 1..Len(r) |-> Mod(r[i], TRUE, OneLib, FALSE)]),
                 ReportFile(t))

\* One module A in both files, with library record lists of all shapes:
\* repeated paths, paths that differ in case and separators only, records
\* the other file lacks, and lines that are no record.
LibInputs ==
  \E r \in SeqsUpTo({Rec(libA, "r"), Rec(libB, "r"), Rec(libC, "r")}, 0, MaxRefLibs),
     t \in SeqsUpTo({Rec(libA, "i1"), Rec(libAalt, "i2"), Rec(libB, "i1")}, 0, MaxTgtLibs),
     junk \in BOOLEAN :
    InitialFiles(ReportFile(<<Mod(A, TRUE, r, FALSE)>>),
                 ReportFile(<<Mod(A, TRUE, t, junk)>>))

\* The scenarios the documentation names, and runs with a missing input.
ExampleRef == ReportFile(PlainMods(<<X, Y, Z>>))
ExampleTgt == ReportFile(PlainMods(<<Y, X, W>>))
ExampleDup == ReportFile(PlainMods(<<A, B, A, A>>))
ExampleLibRef == ReportFile(<<Mod(A, TRUE, <<Rec(libC, "r"), Rec(libA, "r")>>, FALSE)>>)
ExampleLibTgt ==
  ReportFile(<<Mod(A, TRUE, <<Rec(libA, "i1"), Rec(libB, "i1"), Rec(libC, "i1")>>, FALSE)>>)

NamedInputs ==
  \E input \in {<<ExampleRef, ExampleTgt>>, <<ExampleRef, ExampleDup>>,
                <<ExampleLibRef, ExampleLibTgt>>, <<Missing, ExampleTgt>>,
                <<ExampleRef, Missing>>, <<Missing, Missing>>} :
    InitialFiles(input[1], input[2])

\* A module block whose library sub-section is of one of these shapes:
\*   whole   opening delimiter, records, closing rule
\*   noopen  the opening delimiter is missing
\*   noend   the closing rule is missing
\*   namein  whole, but the name line stands inside the sub-section
OddShapes == {"whole", "noopen", "noend", "namein"}

OddMod(name, shape, recs) == [name |-> name, shape |-> shape, recs |-> recs]

OddBlock(i, m) ==
  <<SEP, NL>>
  \o (IF m.shape # "namein" THEN <<NameTok(m.name), NL>> ELSE <<>>)
  \o <<Txt(i), NL>>
  \o (IF m.shape # "noopen" THEN <<LIBOPEN, NL>> ELSE <<>>)
  \o (IF m.shape = "namein" THEN <<NameTok(m.name), NL>> ELSE <<>>)
  \o RecordsLines(m.recs, 1, FALSE)
  \o (IF m.shape # "noend" THEN <<LIBEND, NL>> ELSE <<>>)

RECURSIVE OddBlocks(_, _)
OddBlocks(ms, i) ==
  IF i > Len(ms) THEN <<>> ELSE OddBlock(i, ms[i]) \o OddBlocks(ms, i + 1)

OddFile(ms) == File(<<Txt(0), NL, NL>> \o OddBlocks(ms, 1))

\* Module A in both files with library sub-sections of all shapes, and a
\* module B with the same records that only the target has.
OddInputs ==
  \E rshape \in OddShapes, tshape \in OddShapes,
     r \in SeqsUpTo({Rec(libB, "r"), Rec(libA, "r")}, 0, MaxRefLibs),
     t \in SeqsUpTo({Rec(libA, "i1"), Rec(libB, "i1")}, 0, MaxTgtLibs - 1) :
    InitialFiles(OddFile(<<OddMod(A, rshape, r)>>),
                 OddFile(<<OddMod(A, tshape, t), OddMod(B, "whole", t)>>))

\* More modules than the verifier lists, all named A, every second one with a
\* library record; the reference names the key of the last one.
ManyModules == FirstShown + 2
ExampleManyRef == ReportFile(PlainMods(<<Name("A", <<ManyModules>>)>>))
ExampleManyTgt ==
  ReportFile([i \in 1..ManyModules |->
                Mod(A, TRUE, IF i % 2 = 1 THEN OneLib ELSE <<>>, FALSE)])

ManyInputs == InitialFiles(ExampleManyRef, ExampleManyTgt)

\* Headers of all shapes: none, blank lines only, one line with and without
\* its newline, lines with a blank line between and after them.
Headers ==
  {<<>>, <<NL>>, <<NL, NL>>, <<Txt(0)>>, <<Txt(0), NL>>, <<Txt(0), NL, NL, NL>>,
   <<Txt(0), NL, NL, Txt(5), NL>>, <<NL, Txt(0), NL, Txt(5)>>}

\* Targets with each of these headers before the modules Y, X (or one
\* nameless block), reordered by the reference X, Y, Z.
HeaderInputs ==
  \E h \in Headers, names \in {<<Y, X>>, <<X>>, <<NoName>>} :
    InitialFiles(ExampleRef, File(h \o ModuleBlocks(PlainMods(names), 1)))

----------------------------------------------------------------------------
(* main *)

Init ==
  /\ pc = "start"
  /\ (KeyInputs \/ ShapeInputs \/ LibInputs \/ NamedInputs \/ OddInputs \/ ManyInputs
        \/ HeaderInputs)
  /\ report1 = NoReport
  /\ report2 = NoReport
  /\ new_order = <<>>
  /\ driver_only_ok = "unset"
  /\ driver_and_lib_ok = "unset"
  /\ listed = NothingListed
  /\ produced = NothingProduced
  /\ app = NoApp

\* ValidateInputs without the test of report2_path.
ValidateFirstInputOnly ==
  /\ pc = "start"
  /\ pc' = IF ~fs.in1.exists THEN "exit1" ELSE "parse1"
  /\ UNCHANGED <<fs, report1, report2, new_order, driver_only_ok, driver_and_lib_ok, listed, produced, app>>

\* "Validate input files": sys.exit(1) when a path does not exist.
ValidateInputs ==
  /\ pc = "start"
  /\ pc' = IF ~fs.in1.exists \/ ~fs.in2.exists THEN "exit1" ELSE "parse1"
  /\ UNCHANGED <<fs, report1, report2, new_order, driver_only_ok, driver_and_lib_ok, listed, produced, app>>

\* report1 = BuildReport(report1_path); the ValueError of _parse is not caught.
ParseReport1 ==
  /\ pc = "parse1"
  /\ IF has_modules(fs.in1.content)
     THEN report1' = parse(fs.in1.content) /\ pc' = "parse2"
     ELSE report1' = report1 /\ pc' = "error"
  /\ UNCHANGED <<fs, report2, new_order, driver_only_ok, driver_and_lib_ok, listed, produced, app>>

\* ParseReport2 with the ValueError of _parse caught and ignored: main goes
\* on with the empty report.
ParseReport2IgnoringError ==
  /\ pc = "parse2"
  /\ report2' = IF has_modules(fs.in2.content) THEN parse(fs.in2.content) ELSE report2
  /\ pc' = "reorder"
  /\ UNCHANGED <<fs, report1, new_order, driver_only_ok, driver_and_lib_ok, listed, produced, app>>

\* report2 = BuildReport(report2_path)
ParseReport2 ==
  /\ pc = "parse2"
  /\ IF has_modules(fs.in2.content)
     THEN report2' = parse(fs.in2.content) /\ pc' = "reorder"
     ELSE report2' = report2 /\ pc' = "error"
  /\ UNCHANGED <<fs, report1, new_order, driver_only_ok, driver_and_lib_ok, listed, produced, app>>

\* ReorderModules with the reference list consumed while it is read.
ReorderModulesConsumingReference ==
  /\ pc = "reorder"
  /\ new_order' = reorder_modules(report2, report1.module_order)
  /\ report2' = [report2 EXCEPT !.module_order = new_order']
  /\ report1' = [report1 EXCEPT !.module_order = <<>>]
  /\ pc' = "save1"
  /\ UNCHANGED <<fs, driver_only_ok, driver_and_lib_ok, listed, produced, app>>

\* new_order = report2.reorder_modules(report1.module_order)
ReorderModules ==
  /\ pc = "reorder"
  /\ new_order' = reorder_modules(report2, report1.module_order)
  /\ report2' = [report2 EXCEPT !.module_order = new_order']
  /\ pc' = "save1"
  /\ UNCHANGED <<fs, report1, driver_only_ok, driver_and_lib_ok, listed, produced, app>>

\* report2.save("BuildReport-reorder_driver.txt")
SaveDriver ==
  /\ pc = "save1"
  /\ fs' = [fs EXCEPT !.out1 = File(save(report2, FALSE, NoReport))]
  /\ pc' = "save2"
  /\ UNCHANGED <<report1, report2, new_order, driver_only_ok, driver_and_lib_ok, listed, produced, app>>

\* SaveDriverAndLib with the reordered text stored back into self.modules.
SaveDriverAndLibStoringBlocks ==
  /\ pc = "save2"
  /\ fs' = [fs EXCEPT !.out2 = File(save(report2, TRUE, report1))]
  /\ report2' = [report2 EXCEPT !.modules =
                   [k \in DOMAIN report2.modules |->
                      reorder_libraries_in_module(report2.modules[k], k, report1)]]
  /\ pc' = "verify1"
  /\ UNCHANGED <<report1, new_order, driver_only_ok, driver_and_lib_ok, listed, produced, app>>

\* report2.save("BuildReport-reorder_driver_and_lib.txt", reorder_libraries=True,
\*              reference_report=report1)
SaveDriverAndLib ==
  /\ pc = "save2"
  /\ fs' = [fs EXCEPT !.out2 = File(save(report2, TRUE, report1))]
  /\ pc' = "verify1"
  /\ UNCHANGED <<report1, report2, new_order, driver_only_ok, driver_and_lib_ok, listed, produced, app>>

\* driver_only_ok = verify_report_integrity(report2, "BuildReport-reorder_driver.txt", ...);
\* BuildReport(output_file_path) raises when the output holds no module.
VerifyDriver ==
  /\ pc = "verify1"
  /\ IF has_modules(fs.out1.content)
     THEN /\ driver_only_ok' =
               IF verify_report_integrity(report2, fs.out1.content) THEN "pass" ELSE "fail"
          /\ listed' = [listed EXCEPT !.out1 = listed_mismatches(report2, fs.out1.content)]
          /\ pc' = "verify2"
     ELSE driver_only_ok' = driver_only_ok /\ listed' = listed /\ pc' = "error"
  /\ UNCHANGED <<fs, report1, report2, new_order, driver_and_lib_ok, produced, app>>

\* driver_and_lib_ok = verify_report_integrity(report2,
\*                       "BuildReport-reorder_driver_and_lib.txt", ...)
VerifyDriverAndLib ==
  /\ pc = "verify2"
  /\ IF has_modules(fs.out2.content)
     THEN /\ driver_and_lib_ok' =
               IF verify_report_integrity(report2, fs.out2.content) THEN "pass" ELSE "fail"
          /\ listed' = [listed EXCEPT !.out2 = listed_mismatches(report2, fs.out2.content)]
          /\ pc' = "done"
     ELSE driver_and_lib_ok' = driver_and_lib_ok /\ listed' = listed /\ pc' = "error"
  /\ UNCHANGED <<fs, report1, report2, new_order, driver_only_ok, produced, app>>

Next ==
  \/ ValidateInputs
  \/ ParseReport1
  \/ ParseReport2
  \/ ReorderModules
  \/ SaveDriver
  \/ SaveDriverAndLib
  \/ VerifyDriver
  \/ VerifyDriverAndLib

Spec == Init /\ [][Next]_vars

----------------------------------------------------------------------------
(* A report reordered by its own order *)

\* report2 = BuildReport(report2_path) has been constructed from a target
\* file of the input families.
InitSelf ==
  /\ pc = "object"
  /\ (KeyInputs \/ ShapeInputs \/ NamedInputs \/ OddInputs)
  /\ fs.in2.exists
  /\ has_modules(fs.in2.content)
  /\ report1 = NoReport
  /\ report2 = parse(fs.in2.content)
  /\ new_order = <<>>
  /\ driver_only_ok = "unset"
  /\ driver_and_lib_ok = "unset"
  /\ listed = NothingListed
  /\ produced = NothingProduced
  /\ app = NoApp

\* report2.reorder_modules(report2.module_order)
ReorderBySelf ==
  /\ pc = "object"
  /\ new_order' = reorder_modules(report2, report2.module_order)
  /\ report2' = [report2 EXCEPT !.module_order = new_order']
  /\ pc' = "reordered_by_self"
  /\ UNCHANGED <<fs, report1, driver_only_ok, driver_and_lib_ok, listed, produced, app>>

NextSelf == ReorderBySelf

SpecSelf == InitSelf /\ [][NextSelf]_vars

----------------------------------------------------------------------------
(* main with an output file damaged between save and verification *)

A3 == Name("A", <<3>>)

\* Modules named A or A#2 with no or one library record, reordered by a
\* reference that names the keys A, A#2, A#3.
SuffixInputs ==
  \E r \in SeqsUpTo({A, A2, A3}, 1, MaxRefModules),
     t \in SeqsUpTo(ShapeMods, 1, MaxTgtModules) :
    InitialFiles(ReportFile(PlainMods(r)), ReportFile(t))

InitDamaged ==
  /\ pc = "start"
  /\ (SuffixInputs \/ LibInputs)
  /\ report1 = NoReport
  /\ report2 = NoReport
  /\ new_order = <<>>
  /\ driver_only_ok = "unset"
  /\ driver_and_lib_ok = "unset"
  /\ listed = NothingListed
  /\ produced = NothingProduced
  /\ app = NoApp

\* The file verify_report_integrity reads is the file on disk: before the
\* verifications, the attribute block of one library record of one output
\* file loses its closing brace.
TruncateRecord ==
  /\ pc = "verify1"
  /\ ~Contains(fs.out1.content, "trunc")
  /\ ~Contains(fs.out2.content, "trunc")
  /\ \E f \in {"out1", "out2"} :
       \E i \in Positions(fs[f].content, "info") :
         fs' = [fs EXCEPT ![f].content[i] = TruncTok(@.v)]
  /\ UNCHANGED <<pc, report1, report2, new_order, driver_only_ok, driver_and_lib_ok,
                 listed, produced, app>>

NextDamaged == Next \/ TruncateRecord

SpecDamaged == InitDamaged /\ [][NextDamaged]_vars

----------------------------------------------------------------------------
(* A report reordered twice by the same reference order *)

\* report1 and report2 have been constructed from the files of the input
\* families.
InitTwice ==
  /\ pc = "objects"
  /\ (KeyInputs \/ ShapeInputs \/ NamedInputs)
  /\ fs.in1.exists /\ has_modules(fs.in1.content)
  /\ fs.in2.exists /\ has_modules(fs.in2.content)
  /\ report1 = parse(fs.in1.content)
  /\ report2 = parse(fs.in2.content)
  /\ new_order = <<>>
  /\ driver_only_ok = "unset"
  /\ driver_and_lib_ok = "unset"
  /\ listed = NothingListed
  /\ produced = NothingProduced
  /\ app = NoApp

\* new_order = report2.reorder_modules(report1.module_order)
ReorderOnce ==
  /\ pc = "objects"
  /\ new_order' = reorder_modules(report2, report1.module_order)
  /\ report2' = [report2 EXCEPT !.module_order = new_order']
  /\ pc' = "once"
  /\ UNCHANGED <<fs, report1, driver_only_ok, driver_and_lib_ok, listed, produced, app>>

\* report2.reorder_modules(report1.module_order) again, the returned list
\* not being kept.
ReorderAgain ==
  /\ pc = "once"
  /\ report2' = [report2 EXCEPT
                   !.module_order = reorder_modules(report2, report1.module_order)]
  /\ pc' = "twice"
  /\ UNCHANGED <<fs, report1, new_order, driver_only_ok, driver_and_lib_ok, listed, produced, app>>

NextTwice == ReorderOnce \/ ReorderAgain

SpecTwice == InitTwice /\ [][NextTwice]_vars

----------------------------------------------------------------------------
(* The block of one module reordered twice by the same reference report *)

\* report1 and report2 have been constructed from the files of the input
\* families.
InitDeep ==
  /\ pc = "objects"
  /\ (LibInputs \/ OddInputs \/ ShapeInputs \/ NamedInputs)
  /\ fs.in1.exists /\ has_modules(fs.in1.content)
  /\ fs.in2.exists /\ has_modules(fs.in2.content)
  /\ report1 = parse(fs.in1.content)
  /\ report2 = parse(fs.in2.content)
  /\ new_order = <<>>
  /\ driver_only_ok = "unset"
  /\ driver_and_lib_ok = "unset"
  /\ listed = NothingListed
  /\ produced = NothingProduced
  /\ app = NoApp

\* text = report2._reorder_libraries_in_module(
\*            report2.modules[module_name], module_name, report1)
DeepOnce ==
  /\ pc = "objects"
  /\ \E module_name \in DOMAIN report2.modules :
       produced' = [module |-> module_name,
                    texts |-> <<reorder_libraries_in_module(
                                  report2.modules[module_name], module_name, report1)>>]
  /\ pc' = "once"
  /\ UNCHANGED <<fs, report1, report2, new_order, driver_only_ok, driver_and_lib_ok, listed, app>>

\* text = report2._reorder_libraries_in_module(text, module_name, report1)
DeepAgain ==
  /\ pc = "once"
  /\ produced' = [produced EXCEPT
                    !.texts = Append(@, reorder_libraries_in_module(
                                          produced.texts[1], produced.module, report1))]
  /\ pc' = "twice"
  /\ UNCHANGED <<fs, report1, report2, new_order, driver_only_ok, driver_and_lib_ok, listed, app>>

NextDeep == DeepOnce \/ DeepAgain

SpecDeep == InitDeep /\ [][NextDeep]_vars

----------------------------------------------------------------------------
(* The window of the command board and the actions of its buttons *)

\* The button and check box presses the event loop handles in one run.
MaxClicks == 2

Restrict(d, keys) == [k \in keys |-> d[k]]

tool == <<Word("tool")>>
my_tool == <<Word("my"), SP, Word("tool")>>

\* config['aliases']
Aliases == [git |-> <<Word("git")>>]

\* Templates: with a field and a blank at the end, with a field without a
\* name.
Templates == {<<Field("x"), SP>>, <<AUTO>>}

\* The action dicts of the buttons: each of executable, executableAlias,
\* argsTemplate and the variable x is present or not.
ActionDicts ==
  {Restrict([name |-> <<Word("run")>>, executable |-> e, executableAlias |-> a,
             argsTemplate |-> t, x |-> v], {"name"} \cup keys) :
     e \in {tool, my_tool}, a \in {"git", "unknown"}, t \in Templates,
     v \in {<<>>, <<Word("1")>>},
     keys \in SUBSET {"executable", "executableAlias", "argsTemplate", "x"}}

\* The command dicts: with and without the variable x.
BaseCmds ==
  {Restrict([name |-> <<Word("cmd")>>, label |-> <<Word("Cmd")>>, x |-> <<Word("0")>>],
            {"name", "label"} \cup keys) :
     keys \in {{}, {"x"}}}

\* CommandBoardApp.__init__ followed by app.mainloop(): the window is open,
\* nothing is scheduled, no process has been started and no error shown.
\* The fields of app beyond those of CommandBoardApp:
\*   window       "open" until self.destroy() runs
\*   after_queue  the number of self.destroy callbacks scheduled by self.after
\*   handled      the number of presses the event loop has handled
\*   launched     the processes started by subprocess.Popen, in order
\*   shown        the titles of the error boxes shown, in order
\*   log          the entries written by self.logger
InitBoard ==
  /\ pc = "mainloop"
  /\ fs = [in1 |-> Missing, in2 |-> Missing, out1 |-> Missing, out2 |-> Missing]
  /\ report1 = NoReport
  /\ report2 = NoReport
  /\ new_order = <<>>
  /\ driver_only_ok = "unset"
  /\ driver_and_lib_ok = "unset"
  /\ listed = NothingListed
  /\ produced = NothingProduced
  /\ \E close_on_action \in BOOLEAN, record_log \in BOOLEAN :
       app = [close_on_action |-> close_on_action,
              record_log |-> record_log,
              config_data |-> [aliases |-> Aliases,
                               settings |-> [closeOnAction |-> close_on_action]],
              window |-> "open",
              after_queue |-> 0,
              handled |-> 0,
              launched |-> <<>>,
              shown |-> <<>>,
              log |-> IF record_log THEN LogEntry("APP_START", "INFO") ELSE <<>>]

\* A button of the window is pressed: its command calls execute_action.
ExecuteAction ==
  /\ pc = "mainloop"
  /\ app.window = "open"
  /\ app.handled < MaxClicks
  /\ \E base_cmd \in BaseCmds, action \in ActionDicts, popen_raises \in BOOLEAN :
       app' = [execute_action(app, base_cmd, action, popen_raises) EXCEPT !.handled = @ + 1]
  /\ UNCHANGED <<pc, fs, report1, report2, new_order, driver_only_ok, driver_and_lib_ok,
                 listed, produced>>

\* The check box is pressed: _toggle_close_on_action.  save_fails: writing
\* the configuration file raises.
ToggleCloseOnAction ==
  /\ pc = "mainloop"
  /\ app.window = "open"
  /\ app.handled < MaxClicks
  /\ \E save_fails \in BOOLEAN :
       LET toggled == [app EXCEPT !.handled = @ + 1,
                                  !.close_on_action = ~@,
                                  !.config_data.settings.closeOnAction = ~app.close_on_action]
           changed == Logged(toggled, LogEntry("SETTING_CHANGE", "INFO"))
       IN app' = IF save_fails
                 THEN ShowError(Logged(changed, LogEntry("CONFIG_SAVE", "ERROR")),
                                "Save Error")
                 ELSE Logged(changed, LogEntry("CONFIG_SAVE", "OK"))
  /\ UNCHANGED <<pc, fs, report1, report2, new_order, driver_only_ok, driver_and_lib_ok,
                 listed, produced>>

\* The event loop runs a callback scheduled by self.after(100, self.destroy):
\* the window is destroyed, and with it what is still scheduled.
Destroy ==
  /\ pc = "mainloop"
  /\ app.window = "open"
  /\ app.after_queue > 0
  /\ app' = [app EXCEPT !.window = "destroyed", !.after_queue = 0]
  /\ UNCHANGED <<pc, fs, report1, report2, new_order, driver_only_ok, driver_and_lib_ok,
                 listed, produced>>

NextBoard == ExecuteAction \/ ToggleCloseOnAction \/ Destroy

SpecBoard == InitBoard /\ [][NextBoard]_vars

----------------------------------------------------------------------------
(* Vocabulary of the properties *)

Range(s) == {s[i] : i \in 1..Len(s)}

Count(s, x) == Cardinality({i \in 1..Len(s) : s[i] = x})

NoDuplicates(s) == \A i, j \in 1..Len(s) : s[i] = s[j] => i = j

\* s and t hold the same elements the same number of times.
SameModuloOrder(s, t) ==
  /\ Len(s) = Len(t)
  /\ \A x \in Range(s) \cup Range(t) : Count(s, x) = Count(t, x)

\* The positions of main() at which the named step has been completed.
Reordered == pc \in {"save1", "save2", "verify1", "verify2", "done"}
Saved == pc \in {"verify1", "verify2", "done"}

\* The target report as parsed, before reorder_modules replaced its order.
Target == parse(fs.in2.content)

\* The delimiter blocks of a text, in file order.
Blocks(content) ==
  LET starts == module_starts(content)
  IN [i \in 1..Len(starts) |-> BlockAt(content, starts, i)]

BlockOf(content, i) == Blocks(content)[i]
NumBlocks(content) == Cardinality(Positions(content, "sep"))

\* The declared names of the delimiter blocks that declare one, in file order.
DeclaredNames(content) ==
  LET blocks == Blocks(content)
      IsName(n) == n # NoName
  IN SelectSeq([i \in 1..Len(blocks) |-> extract_module_name(blocks[i])], IsName)

----------------------------------------------------------------------------
(* C1 *)

\* C1: reorder_modules(reference_order) returns, and stores as module_order,
\* the keys of reference_order that are keys of the target's modules, in
\* reference order, followed by the keys of the target's module_order that
\* were not matched, in the target's original order.
C1_ReorderModulesContract ==
  Reordered =>
    LET target == Target
        InTarget(k) == k \in DOMAIN target.modules
        matched == SelectSeq(report1.module_order, InTarget)
        Unmatched(k) == k \notin Range(matched)
    IN /\ new_order = matched \o SelectSeq(target.module_order, Unmatched)
       /\ report2.module_order = new_order

\* The documented scenario: reference [X, Y, Z], target [Y, X, W] give [X, Y, W].
C1_Witness ==
  /\ pc = "save1"
  /\ report1.module_order = <<X, Y, Z>>
  /\ Target.module_order = <<Y, X, W>>
  /\ new_order = <<X, Y, W>>
  /\ report2.module_order = <<X, Y, W>>

----------------------------------------------------------------------------
(* C2 *)

\* C2: after parsing any input file, module_order contains no key twice and
\* is a permutation of the keys of the modules mapping.
C2_KeysUnique ==
  /\ pc = "parse2" =>
       /\ NoDuplicates(report1.module_order)
       /\ Range(report1.module_order) = DOMAIN report1.modules
  /\ pc = "reorder" =>
       /\ NoDuplicates(report2.module_order)
       /\ Range(report2.module_order) = DOMAIN report2.modules

----------------------------------------------------------------------------
(* C3 *)

\* C3: after reorder_modules every key of the target appears exactly once in
\* the new module_order, no other key appears, and keys common to both
\* reports appear in the reference's relative order.
C3_NewOrderIsPermutation ==
  Reordered =>
    /\ \A k \in DOMAIN report2.modules : Count(report2.module_order, k) = 1
    /\ Range(report2.module_order) = DOMAIN report2.modules
    /\ SameModuloOrder(report2.module_order, Target.module_order)
    /\ LET Common(k) == k \in Range(report1.module_order)
           InTarget(k) == k \in DOMAIN report2.modules
       IN SelectSeq(report2.module_order, Common) = SelectSeq(report1.module_order, InTarget)

----------------------------------------------------------------------------
(* C4 *)

\* The text without its newline characters.
WithoutNewlines(text) ==
  LET NotNewline(t) == t.k # "nl" IN SelectSeq(text, NotNewline)

\* C4: the transformation changes only order.  In both output files the
\* header and every module block of the target are present, the i-th block
\* written being the block of the i-th key; the modules-only output holds
\* each block unaltered and the deep-reorder output holds it with nothing
\* dropped, duplicated or altered (blank lines aside): the same pieces of
\* text, each as often as in the input block.
C4_OnlyOrderChanges ==
  Saved =>
    \A out \in {fs.out1.content, fs.out2.content} :
      /\ NumBlocks(out) = Len(report2.module_order)
      /\ rstrip_nl(SubSeq(out, 1, Len(report2.header))) = report2.header
      /\ \A i \in 1..Len(report2.module_order) :
           LET block == report2.modules[report2.module_order[i]]
               written == BlockOf(out, i)
           IN /\ SameModuloOrder(WithoutNewlines(written), WithoutNewlines(block))
              /\ out = fs.out1.content =>
                   WithoutNewlines(written) = WithoutNewlines(block)

----------------------------------------------------------------------------
(* C5 *)

\* The structural shape of a report: its keys, each with its library count.
Shape(report) ==
  [i \in 1..Len(report.module_order) |->
     <<report.module_order[i], get_library_count(report, report.module_order[i])>>]

\* C5: whenever re-parsing an output gives other module keys or another
\* library count for some module than the target input had (modulo order),
\* verify_report_integrity returns fail for that output.
C5_NoFalseSuccess ==
  /\ pc \in {"verify2", "done"}
       /\ ~SameModuloOrder(Shape(parse(fs.out1.content)), Shape(Target))
     => driver_only_ok = "fail"
  /\ pc = "done"
       /\ ~SameModuloOrder(Shape(parse(fs.out2.content)), Shape(Target))
     => driver_and_lib_ok = "fail"

----------------------------------------------------------------------------
(* C6 *)

\* The number of names up to the i-th that equal the i-th.
Occurrence(names, i) == Cardinality({j \in 1..i : names[j] = names[i]})

\* The key of the duplicate-suffixing rule: n for the first block declaring
\* n, n#k for the k-th.
SuffixedKey(names, i) ==
  IF Occurrence(names, i) = 1 THEN names[i] ELSE Suffixed(names[i], Occurrence(names, i))

SuffixedKeys(names) == [i \in 1..Len(names) |-> SuffixedKey(names, i)]

\* C6: the first block with declared name n gets key n and the k-th (k >= 2)
\* gets key n#k, module_order listing the keys in order of appearance.
C6_DuplicateSuffixing ==
  /\ pc = "parse2" => report1.module_order = SuffixedKeys(DeclaredNames(fs.in1.content))
  /\ pc = "reorder" => report2.module_order = SuffixedKeys(DeclaredNames(fs.in2.content))

\* The documented scenario: names A, B, A, A give keys A, B, A#2, A#3.
C6_Witness ==
  /\ pc = "reorder"
  /\ DeclaredNames(fs.in2.content) = <<A, B, A, A>>
  /\ report2.module_order = <<A, B, Name("A", <<2>>), Name("A", <<3>>)>>

----------------------------------------------------------------------------
(* C7 *)

\* C7: a parse that succeeds yields one key per occurrence of the
\* module-start delimiter (a block without a name is an error, never
\* dropped).
C7_EveryBlockYieldsAKey ==
  /\ pc = "parse2" => Len(report1.module_order) = NumBlocks(fs.in1.content)
  /\ pc = "reorder" => Len(report2.module_order) = NumBlocks(fs.in2.content)

----------------------------------------------------------------------------
(* C8 *)

\* The library records of a block: those of its library sub-section, none
\* when the block has no opening library delimiter.
LibsOf(block) ==
  IF Contains(block, "libopen") THEN find_libs(BeforeEnd(AfterMarker(block)), 1) ELSE <<>>

\* A block with a library sub-section: an opening delimiter and a closing
\* rule after it.
HasLibSection(block) ==
  Contains(block, "libopen") /\ Contains(AfterMarker(block), "libend")

\* The number of records up to the i-th that have the i-th's normalized path.
PathRank(libs, i) ==
  Cardinality({j \in 1..i : libs[j].normalized_path = libs[i].normalized_path})

\* The target record the r-th reference record takes: the k-th reference
\* record of a path takes the k-th target record of that path; 0 when the
\* target has fewer than k.
TakenBy(ref, cur, r) ==
  LET fits == {i \in 1..Len(cur) :
                 /\ cur[i].normalized_path = ref[r].normalized_path
                 /\ PathRank(cur, i) = PathRank(ref, r)}
  IN IF fits = {} THEN 0 ELSE CHOOSE i \in fits : TRUE

\* The order of the library-level contract, as indices into cur.
ContractOrder(ref, cur) ==
  LET Taken(i) == i # 0
      matched == SelectSeq([r \in 1..Len(ref) |-> TakenBy(ref, cur, r)], Taken)
      Unused(i) == i \notin Range(matched)
  IN matched \o SelectSeq([i \in 1..Len(cur) |-> i], Unused)

\* C8: for a module of both reports, the deep-reorder output holds the
\* target's records in this order: for each reference record in reference
\* order the first not yet used target record of the same normalized path,
\* then the unused target records in their original order.
C8_LibraryReorderContract ==
  Saved =>
    LET written == Blocks(fs.out2.content) IN
    \A i \in 1..Len(report2.module_order) :
      LET key == report2.module_order[i]
          cur == LibsOf(report2.modules[key])
          ref == LibsOf(report1.modules[key])
          order == ContractOrder(ref, cur)
      IN (key \in DOMAIN report1.modules /\ HasLibSection(report2.modules[key]))
         => LibsOf(written[i]) = [n \in 1..Len(cur) |-> cur[order[n]]]

Paths(libs) == [i \in 1..Len(libs) |-> libs[i].path]

\* The documented scenario: target [libA, libB, libC] and reference
\* [libC, libA] give [libC, libA, libB].
C8_Witness ==
  /\ pc = "verify1"
  /\ report2.module_order = <<A>>
  /\ Paths(LibsOf(report2.modules[A])) = <<libA, libB, libC>>
  /\ Paths(LibsOf(report1.modules[A])) = <<libC, libA>>
  /\ Paths(LibsOf(BlockOf(fs.out2.content, 1))) = <<libC, libA, libB>>

----------------------------------------------------------------------------
(* C9 *)

\* C9: the records of every module block of the deep-reorder output are a
\* permutation of the records of the target's block: same length, every
\* record as often as before.
C9_LibraryReorderIsPermutation ==
  Saved =>
    LET written == Blocks(fs.out2.content) IN
    \A i \in 1..Len(report2.module_order) :
      SameModuloOrder(LibsOf(written[i]),
                      LibsOf(report2.modules[report2.module_order[i]]))

\* A module whose three records, two of them of the same normalized path,
\* were written in another order than they had.
C9_Witness ==
  /\ pc = "verify1"
  /\ \E i \in 1..Len(report2.module_order) :
       LET cur == LibsOf(report2.modules[report2.module_order[i]])
           new == LibsOf(BlockOf(fs.out2.content, i))
       IN /\ Len(cur) = 3
          /\ new # cur
          /\ cur[1].normalized_path = cur[2].normalized_path
          /\ cur[1] # cur[2]

----------------------------------------------------------------------------
(* C10 *)

\* C10: re-parsing either output file yields an order that holds the keys of
\* the report's order, each as often as there: no key lost, none duplicated.
C10_KeysSurviveRoundTrip ==
  Saved =>
    \A out \in {fs.out1.content, fs.out2.content} :
      has_modules(out) => SameModuloOrder(parse(out).module_order, report2.module_order)

----------------------------------------------------------------------------
(* C11 *)

\* C11: the keys that only the target has (absent from the reference order)
\* keep their original relative order in the new order, and all of them come
\* after every key matched from the reference.
C11_LeftoversKeepOrder ==
  Reordered =>
    LET target == Target
        order == report2.module_order
        TargetOnly(k) == k \notin Range(report1.module_order)
    IN /\ SelectSeq(order, TargetOnly) = SelectSeq(target.module_order, TargetOnly)
       /\ \A i, j \in 1..Len(order) :
            (TargetOnly(order[i]) /\ ~TargetOnly(order[j])) => j < i

\* Two different keys that only the target has stood before a matched key
\* and now follow it, in their original order.
C11_Witness ==
  /\ pc = "save1"
  /\ LET target == Target
         TargetOnly(k) == k \notin Range(report1.module_order)
     IN /\ Len(target.module_order) = 3
        /\ TargetOnly(target.module_order[1])
        /\ TargetOnly(target.module_order[2])
        /\ target.module_order[1] # target.module_order[2]
        /\ ~TargetOnly(target.module_order[3])
        /\ report2.module_order = <<target.module_order[3], target.module_order[1],
                                    target.module_order[2]>>

----------------------------------------------------------------------------
(* C12 *)

\* C12: reordering a parsed report by its own module_order returns that
\* order and leaves module_order equal to its previous value.
C12_ReorderBySelfIsIdentity ==
  pc = "reordered_by_self" =>
    /\ report2.module_order = Target.module_order
    /\ new_order = Target.module_order
    /\ report2.modules = Target.modules

\* A report of three keys, one of them listed twice, reordered by its own
\* order.
C12_Witness ==
  /\ pc = "reordered_by_self"
  /\ Len(report2.module_order) = 3
  /\ ~NoDuplicates(report2.module_order)
  /\ Cardinality(Range(report2.module_order)) = 2

----------------------------------------------------------------------------
(* C13 *)

\* The module counts are equal and every key of the report's order has the
\* same library count in the report and in the re-parsed output.
CountsAgree(report, out) ==
  LET output == parse(out) IN
  /\ Len(output.module_order) = Len(report.module_order)
  /\ \A k \in Range(report.module_order) :
       get_library_count(report, k) = get_library_count(output, k)

\* C13: a verification returns pass exactly when the re-parsed output has as
\* many modules as the target and no key of the target has another library
\* count in the output than in the target; otherwise it returns fail.
C13_VerifierDecision ==
  /\ pc \in {"verify2", "done"} =>
       driver_only_ok = (IF CountsAgree(report2, fs.out1.content) THEN "pass" ELSE "fail")
  /\ pc = "done" =>
       driver_and_lib_ok = (IF CountsAgree(report2, fs.out2.content) THEN "pass" ELSE "fail")

\* A run in which the modules-only output has the target's module count but
\* another library count for some key: its verification fails.
C13_Witness ==
  /\ pc = "done"
  /\ driver_only_ok = "fail"
  /\ Len(parse(fs.out1.content).module_order) = Len(report2.module_order)
  /\ \E k \in Range(report2.module_order) :
       get_library_count(report2, k) # get_library_count(parse(fs.out1.content), k)

----------------------------------------------------------------------------
(* C14 *)

\* The index of the block of an output that holds the truncated record.
TruncatedBlock(out) ==
  LET blocks == Blocks(out)
  IN CHOOSE i \in 1..Len(blocks) : Contains(blocks[i], "trunc")

\* C14: when one library record of an output file has its attribute block
\* truncated before the closing brace, the verification of that file fails,
\* and for the key of the module that holds the record (the key of the
\* target's order at that position, or the key the re-parse gives the block)
\* the re-parsed library count differs from the target's and the key is
\* among the listed mismatches.
C14_TruncationIsListed ==
  pc = "done" =>
    \A f \in {"out1", "out2"} :
      Contains(fs[f].content, "trunc") =>
        LET out == fs[f].content
            output == parse(out)
            i == TruncatedBlock(out)
            ok == IF f = "out1" THEN driver_only_ok ELSE driver_and_lib_ok
        IN /\ ok = "fail"
           /\ \E key \in {report2.module_order[i], output.module_order[i]} :
                /\ get_library_count(output, key) # get_library_count(report2, key)
                /\ \E n \in 1..Len(listed[f]) : listed[f][n].module = key

----------------------------------------------------------------------------
(* C15 *)

\* The keys of the report's order whose library count in the re-parsed
\* output differs, in that order, each with the expected (report) and the
\* actual (output) count.
Differing(report, out) ==
  LET output == parse(out)
      order == report.module_order
      Differs(r) == r.original # r.output
  IN SelectSeq([i \in 1..Len(order) |->
                  [module |-> order[i],
                   original |-> get_library_count(report, order[i]),
                   output |-> get_library_count(output, order[i])]],
               Differs)

\* The first n elements of a sequence.
Prefix(s, n) == SubSeq(s, 1, IF Len(s) < n THEN Len(s) ELSE n)

SameModuleCount(report, out) ==
  Len(parse(out).module_order) = Len(report.module_order)

----------------------------------------------------------------------------
(* C16 *)

\* Two records have the same path once lower-cased and written with forward
\* slashes; attribute text plays no part.
SamePath(a, b) == a.path.id = b.path.id

\* The target record the r-th reference record takes when records match by
\* SamePath: the k-th reference record of a path takes the k-th target
\* record of that path; 0 when the target has fewer than k.
TakenBySamePath(ref, cur, r) ==
  LET rank == Cardinality({q \in 1..r : SamePath(ref[q], ref[r])})
      fits == {i \in 1..Len(cur) :
                 /\ SamePath(cur[i], ref[r])
                 /\ Cardinality({j \in 1..i : SamePath(cur[j], cur[i])}) = rank}
  IN IF fits = {} THEN 0 ELSE CHOOSE i \in fits : TRUE

OrderBySamePath(ref, cur) ==
  LET Taken(i) == i # 0
      matched == SelectSeq([r \in 1..Len(ref) |-> TakenBySamePath(ref, cur, r)], Taken)
      Unused(i) == i \notin Range(matched)
  IN matched \o SelectSeq([i \in 1..Len(cur) |-> i], Unused)

----------------------------------------------------------------------------
(* C17 *)

\* C17: a module whose key is no key of the reference report is written to
\* the deep-reorder output exactly as to the modules-only output.
C17_TargetOnlyModuleUntouched ==
  Saved =>
    LET plain == Blocks(fs.out1.content)
        deep == Blocks(fs.out2.content)
    IN \A i \in 1..Len(report2.module_order) :
         report2.module_order[i] \notin DOMAIN report1.modules =>
           /\ deep[i] = plain[i]
           /\ WithoutNewlines(deep[i]) = WithoutNewlines(report2.modules[report2.module_order[i]])

\* The target's module B, which the reference lacks, holds the records that
\* the deep reorder has put into another order in module A, and is written
\* as it was.
C17_Witness ==
  /\ pc = "verify1"
  /\ report2.module_order = <<A, B>>
  /\ B \notin DOMAIN report1.modules
  /\ Paths(LibsOf(report2.modules[B])) = <<libA, libB>>
  /\ Paths(LibsOf(BlockOf(fs.out2.content, 1))) = <<libB, libA>>
  /\ Paths(LibsOf(BlockOf(fs.out2.content, 2))) = <<libA, libB>>
  /\ BlockOf(fs.out2.content, 2) = BlockOf(fs.out1.content, 2)

----------------------------------------------------------------------------
(* C18 *)

\* The i-th module as save wrote it: the i-th block of the output without
\* the newline that save puts before the next module.
WrittenModule(out, i) ==
  LET block == Blocks(out)[i]
  IN IF i < NumBlocks(out) THEN SubSeq(block, 1, Len(block) - 1) ELSE block

\* C18: in the deep-reorder output a module block with a library
\* sub-section is the target's text before the opening delimiter, the
\* opening delimiter, a sub-section, the closing rule and the target's text
\* after its first closing rule; a block without a sub-section is the
\* target's block.
C18_TextOutsideSectionUnchanged ==
  Saved =>
    \A i \in 1..Len(report2.module_order) :
      LET block == report2.modules[report2.module_order[i]]
          written == WrittenModule(fs.out2.content, i)
      IN IF HasLibSection(block)
         THEN /\ HasLibSection(written)
              /\ written = BeforeMarker(block) \o <<LIBOPEN>>
                             \o BeforeEnd(AfterMarker(written)) \o <<LIBEND>>
                             \o AfterEnd(AfterMarker(block))
         ELSE written = block

\* A module whose records were put into another order, with text before
\* the opening delimiter and after the closing rule.
C18_Witness ==
  /\ pc = "verify1"
  /\ \E i \in 1..Len(report2.module_order) :
       LET block == report2.modules[report2.module_order[i]]
           written == WrittenModule(fs.out2.content, i)
       IN /\ HasLibSection(block)
          /\ written # block
          /\ BeforeMarker(block) # <<>>
          /\ AfterEnd(AfterMarker(block)) # <<>>
          /\ Len(LibsOf(block)) >= 2

----------------------------------------------------------------------------
(* C19 *)

\* The block lacks the opening library delimiter or lacks the closing rule.
LacksDelimiter(block) == ~Contains(block, "libopen") \/ ~Contains(block, "libend")

\* C19: a block of the target or of the reference that lacks the opening
\* delimiter or the closing rule has zero library records: its library
\* count is 0, as a target block it is written unchanged by the deep
\* reorder, and as a reference block it gives no records to reorder by (the
\* target's module of that key is written unchanged).
C19_BlockWithoutDelimitersHasNoRecords ==
  Saved =>
    /\ \A k \in DOMAIN report1.modules :
         LacksDelimiter(report1.modules[k]) => get_library_count(report1, k) = 0
    /\ \A i \in 1..Len(report2.module_order) :
         LET key == report2.module_order[i]
             block == report2.modules[key]
             written == WrittenModule(fs.out2.content, i)
         IN /\ LacksDelimiter(block) =>
                 (get_library_count(report2, key) = 0 /\ written = block)
            /\ (key \in DOMAIN report1.modules /\ LacksDelimiter(report1.modules[key])) =>
                 written = block

----------------------------------------------------------------------------
(* C20 *)

\* 0 after "Done!", 1 after sys.exit(1) and after an exception nothing
\* catches, no status while main is running.
Exited == pc \in {"done", "exit1", "error"}
ExitStatus == IF pc = "done" THEN 0 ELSE 1

\* The positions of main() after report1, and after both reports, have been
\* constructed.
Parsed1 == pc \in {"parse2", "reorder", "save1", "save2", "verify1", "verify2", "done"}
Parsed2 == pc \in {"reorder", "save1", "save2", "verify1", "verify2", "done"}

\* C20: an input without any module-start delimiter is never parsed into a
\* report: main ends in the error, with a non-zero exit status, and goes no
\* further; an input with at least one delimiter is parsed (main ends in the
\* error before any output is written only if an input has no delimiter).
C20_ParseFailsWithoutDelimiter ==
  /\ Parsed1 => NumBlocks(fs.in1.content) >= 1
  /\ Parsed2 => NumBlocks(fs.in2.content) >= 1
  /\ (pc = "error" /\ ~fs.out1.exists) =>
       /\ NumBlocks(fs.in1.content) = 0 \/ NumBlocks(fs.in2.content) = 0
       /\ report2 = NoReport
       /\ NumBlocks(fs.in1.content) = 0 => report1 = NoReport
       /\ Exited /\ ExitStatus # 0
       /\ ~ENABLED Next
  /\ (fs.in1.exists /\ fs.in2.exists /\ pc \notin {"start", "parse1"}
        /\ NumBlocks(fs.in1.content) = 0) => pc = "error"
  /\ (fs.in1.exists /\ fs.in2.exists /\ pc \notin {"start", "parse1", "parse2"}
        /\ NumBlocks(fs.in2.content) = 0) => pc = "error"

\* The reference parses and the target, a file without any delimiter, does
\* not: main has ended in the error.
C20_Witness ==
  /\ pc = "error"
  /\ fs.in2.exists
  /\ NumBlocks(fs.in1.content) >= 1
  /\ NumBlocks(fs.in2.content) = 0
  /\ report1 # NoReport
  /\ report2 = NoReport

----------------------------------------------------------------------------
(* C21 *)

MissingInput == ~fs.in1.exists \/ ~fs.in2.exists

\* No report has been constructed, no order computed, no output file
\* written and no verification made.
NothingDone ==
  /\ report1 = NoReport
  /\ report2 = NoReport
  /\ new_order = <<>>
  /\ ~fs.out1.exists
  /\ ~fs.out2.exists
  /\ driver_only_ok = "unset"
  /\ driver_and_lib_ok = "unset"
  /\ listed = NothingListed
  /\ produced = NothingProduced
  /\ app = NoApp

\* C21: when an input path does not exist, whichever of the two, the run
\* does nothing but end with sys.exit(1): it is at its start or has exited
\* with a non-zero status and takes no further step, and no report has been
\* parsed, no order computed, no output file written and no verification
\* made.
C21_MissingInputHalts ==
  MissingInput =>
    /\ pc \in {"start", "exit1"}
    /\ NothingDone
    /\ pc = "start" => ENABLED ValidateInputs
    /\ pc = "exit1" => (Exited /\ ExitStatus # 0 /\ ~ENABLED Next)

\* The run has exited because the target path does not exist, the reference
\* path existing.
C21_Witness ==
  /\ pc = "exit1"
  /\ fs.in1.exists
  /\ ~fs.in2.exists

----------------------------------------------------------------------------
(* C22 *)

\* C22: the order of the pipeline.  An order is computed and an output file
\* is written only after both reports have been parsed; when an input has no
\* module delimiter the run ends in the error with nothing reordered,
\* written or verified; an output file is verified only after it (and the
\* other one) has been written, and the result of each verification is the
\* comparison of that output with the target report.
C22_PipelineOrdering ==
  /\ (pc \notin {"start", "exit1", "parse1", "parse2", "error"} \/ new_order # <<>>
        \/ fs.out1.exists \/ fs.out2.exists) =>
       /\ NumBlocks(fs.in1.content) >= 1 /\ report1 = parse(fs.in1.content)
       /\ NumBlocks(fs.in2.content) >= 1 /\ report2.modules = Target.modules
  /\ (~MissingInput /\ (NumBlocks(fs.in1.content) = 0 \/ NumBlocks(fs.in2.content) = 0)) =>
       /\ pc \in {"start", "parse1", "parse2", "error"}
       /\ new_order = <<>>
       /\ ~fs.out1.exists /\ ~fs.out2.exists
       /\ driver_only_ok = "unset" /\ driver_and_lib_ok = "unset"
       /\ pc = "error" => ~ENABLED Next
  /\ fs.out2.exists => fs.out1.exists
  /\ driver_only_ok # "unset" =>
       /\ fs.out1.exists /\ fs.out2.exists
       /\ driver_only_ok = (IF CountsAgree(report2, fs.out1.content) THEN "pass" ELSE "fail")
  /\ driver_and_lib_ok # "unset" =>
       /\ driver_only_ok # "unset"
       /\ driver_and_lib_ok = (IF CountsAgree(report2, fs.out2.content) THEN "pass" ELSE "fail")
  /\ pc = "done" => (driver_only_ok # "unset" /\ driver_and_lib_ok # "unset")

\* A run that has parsed two reports of several modules, reordered, written
\* both output files and verified both.
C22_Witness ==
  /\ pc = "done"
  /\ Len(report1.module_order) >= 2
  /\ report2.module_order # Target.module_order
  /\ fs.out1.exists /\ fs.out2.exists
  /\ driver_only_ok = "pass" /\ driver_and_lib_ok = "pass"

----------------------------------------------------------------------------
(* C23 *)

\* Both inputs exist and hold a module delimiter, so both parse.
BothInputsParse ==
  /\ ~MissingInput
  /\ NumBlocks(fs.in1.content) >= 1
  /\ NumBlocks(fs.in2.content) >= 1

\* C23: when both inputs exist and parse, the run never ends in an error:
\* it ends only after both verifications have been made, the second also
\* when the first failed, and with exit status 0 whatever their results.
C23_VerificationFailureKeepsExitStatus ==
  BothInputsParse =>
    /\ pc # "error"
    /\ driver_only_ok = "fail" => pc \in {"verify2", "done"}
    /\ Exited =>
         /\ ExitStatus = 0
         /\ driver_only_ok \in {"pass", "fail"}
         /\ driver_and_lib_ok \in {"pass", "fail"}

----------------------------------------------------------------------------
(* C24 *)

\* The text of a block before its opening library delimiter, the whole
\* block when it has none.
BeforeMarkerOrAll(block) ==
  IF Contains(block, "libopen") THEN BeforeMarker(block) ELSE block

\* C24: save leaves the in-memory models as they were.  After either save
\* the reference report is the report parsed from the reference file and the
\* target report is the parsed target with the new order, so that both files
\* are written from the same model: the same header and, position by
\* position, the blocks of the same keys (the modules-only file holding them
\* as they are in memory).
C24_SaveDoesNotMutate ==
  pc \in {"save2", "verify1", "verify2", "done"} =>
    LET target == Target IN
    /\ report1 = parse(fs.in1.content)
    /\ report2.header = target.header
    /\ report2.modules = target.modules
    /\ report2.module_order = new_order
    /\ Saved =>
         /\ NumBlocks(fs.out1.content) = Len(report2.module_order)
         /\ NumBlocks(fs.out2.content) = Len(report2.module_order)
         /\ \A i \in 1..Len(report2.module_order) :
              /\ WrittenModule(fs.out1.content, i) = report2.modules[report2.module_order[i]]
              /\ BeforeMarkerOrAll(WrittenModule(fs.out2.content, i))
                   = BeforeMarkerOrAll(report2.modules[report2.module_order[i]])

\* Both files are written, the deep-reorder file holding the records of a
\* module in another order than the model, which still holds them as parsed.
C24_Witness ==
  /\ pc = "verify1"
  /\ \E i \in 1..Len(report2.module_order) :
       LET key == report2.module_order[i] IN
       /\ LibsOf(BlockOf(fs.out2.content, i)) # LibsOf(report2.modules[key])
       /\ LibsOf(BlockOf(fs.out1.content, i)) = LibsOf(report2.modules[key])
       /\ report2.modules[key] = Target.modules[key]

----------------------------------------------------------------------------
(* C25 *)

\* C25: reorder_modules replaces the target's module_order by the order it
\* returns and changes nothing else: the target's header and modules mapping
\* (keys and block texts) are those of the parsed target, and the reference
\* report, whose module_order was passed in, is as parsed.
C25_ReorderChangesOnlyOrder ==
  pc = "save1" =>
    LET target == Target
        reference == parse(fs.in1.content)
    IN /\ report2.module_order = new_order
       /\ report2.header = target.header
       /\ DOMAIN report2.modules = DOMAIN target.modules
       /\ \A k \in DOMAIN target.modules : report2.modules[k] = target.modules[k]
       /\ report1.module_order = reference.module_order
       /\ report1 = reference

\* The order of a target of three modules with library sections has been
\* replaced by another one.
C25_Witness ==
  /\ pc = "save1"
  /\ Len(Target.module_order) = 3
  /\ report2.module_order # Target.module_order
  /\ Len(report1.module_order) = 2
  /\ \E k \in DOMAIN report2.modules : HasLibSection(report2.modules[k])

----------------------------------------------------------------------------
(* C26 *)

\* C26: re-parsing the modules-only output gives a module_order equal,
\* element by element, to the order that was written, and every key of the
\* re-parsed report denotes the block that key denotes in the target.
C26_KeysStableAcrossRoundTrip ==
  (Saved /\ has_modules(fs.out1.content)) =>
    LET output == parse(fs.out1.content) IN
    /\ output.module_order = report2.module_order
    /\ DOMAIN output.modules = DOMAIN report2.modules
    /\ \A k \in DOMAIN output.modules \cap DOMAIN report2.modules :
         rstrip_nl(output.modules[k]) = rstrip_nl(report2.modules[k])

----------------------------------------------------------------------------
(* C27 *)

\* The text before the first module delimiter, up to its last token that is
\* no newline.
HeaderText(content) ==
  LET before == SubSeq(content, 1, First(content, "sep") - 1)
      kept == {i \in 1..Len(before) : before[i].k # "nl"}
  IN SubSeq(before, 1, IF kept = {} THEN 0 ELSE CHOOSE i \in kept : \A j \in kept : j <= i)

----------------------------------------------------------------------------
(* C28 *)

\* C28: after reorder_modules has been called twice with the same reference
\* order (duplicate-free or not), module_order is the order the first call
\* returned.
C28_ReorderTwiceIsReorderOnce ==
  pc = "twice" => report2.module_order = new_order

\* A target of three keys, two of them absent from the reference order, the
\* first call having changed the order.
C28_Witness ==
  /\ pc = "twice"
  /\ Len(Target.module_order) = 3
  /\ NoDuplicates(report1.module_order)
  /\ new_order # Target.module_order
  /\ Cardinality(Range(Target.module_order) \ Range(report1.module_order)) = 2


\* report with the block of one module replaced by text.
WithBlock(report, module_name, text) ==
  [report EXCEPT !.modules = [k \in DOMAIN report.modules |->
                                IF k = module_name THEN text ELSE report.modules[k]]]

\* C29: the text _reorder_libraries_in_module returns for the text it has
\* produced from a block, with the same reference report, is that text
\* unchanged, and the produced text has the library count of the block.
C29_DeepReorderIdempotent ==
  /\ Len(produced.texts) >= 1 =>
       get_library_count(WithBlock(report2, produced.module, produced.texts[1]),
                         produced.module)
         = get_library_count(report2, produced.module)
  /\ Len(produced.texts) = 2 => produced.texts[2] = produced.texts[1]

\* The first call moved records and dropped a line that is no record, and
\* the second call has returned.
C29_Witness ==
  /\ pc = "twice"
  /\ produced.texts[1] # report2.modules[produced.module]
  /\ Len(produced.texts[1]) < Len(report2.modules[produced.module])
  /\ get_library_count(report2, produced.module) >= 2
  /\ Paths(find_libs(BeforeEnd(AfterMarker(produced.texts[1])), 1))
       # Paths(find_libs(BeforeEnd(AfterMarker(report2.modules[produced.module])), 1))


----------------------------------------------------------------------------
(* C30 *)

\* The titles of the error boxes of execute_action.
ExecuteErrors == {"Error", "Template Error", "Execution Failed"}

\* The executable is missing, a variable of the template is missing, or
\* formatting the template or starting the process raises.
Fails(base_cmd, action, popen_raises) ==
  LET template == strip(GetOrEmpty(action, "argsTemplate")) IN
  \/ resolve_executable(action, app.config_data) = <<>>
  \/ placeholders_of(template) \ DOMAIN vars_ctx_of(base_cmd, action) # {}
  \/ format_raises(template)
  \/ popen_raises

====
